---- MODULE Spec2Model ----
(***************************************************************************)
(* Model of trimesh/smoothing.py: the Laplacian operator construction      *)
(* (laplacian_calculation) and the three smoothing filters built on it     *)
(* (filter_laplacian, filter_humphrey, filter_taubin).                     *)
(*                                                                         *)
(* Real numbers are modelled as exact rationals <<num, den>> in lowest     *)
(* terms with den > 0; floating-point rounding is not modelled.            *)
(* Vertex ids are 1-based here (0-based in the source).                    *)
(***************************************************************************)
EXTENDS Integers, Sequences, FiniteSets, TLC

\* ------------------------------------------------------------------------
\* Bounds of the model
\* ------------------------------------------------------------------------
MaxIter == 2

MaxSolveDim == 6

MaxRoot == 3

\* ------------------------------------------------------------------------
\* Exact rational arithmetic (the float arithmetic of numpy, idealised)
\* ------------------------------------------------------------------------
Abs(x) == IF x < 0 THEN -x ELSE x

RECURSIVE GCD(_, _)
GCD(a, b) == IF b = 0 THEN a ELSE GCD(b, a % b)

RNorm(n, d) ==
  LET g == GCD(Abs(n), Abs(d))
      s == IF d < 0 THEN -1 ELSE 1
  IN  IF n = 0 THEN <<0, 1>> ELSE <<s * (n \div g), s * (d \div g)>>

R(n, d) == RNorm(n, d)

Zero == <<0, 1>>

One == <<1, 1>>

RAdd(a, b) ==
  LET g == GCD(a[2], b[2])
  IN  RNorm(a[1] * (b[2] \div g) + b[1] * (a[2] \div g), (a[2] \div g) * b[2])

RNeg(a) == <<-a[1], a[2]>>

RSub(a, b) == RAdd(a, RNeg(b))

RMul(a, b) ==
  IF a[1] = 0 \/ b[1] = 0 THEN Zero
  ELSE LET g1 == GCD(Abs(a[1]), b[2])
           g2 == GCD(Abs(b[1]), a[2])
       IN  <<(a[1] \div g1) * (b[1] \div g2), (a[2] \div g2) * (b[2] \div g1)>>

RInv(a) == IF a[1] > 0 THEN <<a[2], a[1]>> ELSE <<-a[2], -a[1]>>

RDiv(a, b) == RMul(a, RInv(b))

RLe(a, b) == a[1] * b[2] <= b[1] * a[2]

IsSquare(n) == \E k \in 0..n : k * k = n

ISqrt(n) == CHOOSE k \in 0..n : k * k = n

\* np.sqrt on the rationals whose root is rational
RSqrt(a) == <<ISqrt(a[1]), ISqrt(a[2])>>

RootCandidates == {R(n, d) : n \in (-MaxRoot)..MaxRoot, d \in 1..MaxRoot}

\* x ** (1./3.) on the rationals whose cube root is rational
CubeRoot(x) == CHOOSE c \in RootCandidates : RMul(c, RMul(c, c)) = x

\* ------------------------------------------------------------------------
\* (V, 3) arrays: sequences of 3-vectors of rationals
\* ------------------------------------------------------------------------
VAdd(u, w) == <<RAdd(u[1], w[1]), RAdd(u[2], w[2]), RAdd(u[3], w[3])>>

VSub(u, w) == <<RSub(u[1], w[1]), RSub(u[2], w[2]), RSub(u[3], w[3])>>

VScale(c, u) == <<RMul(c, u[1]), RMul(c, u[2]), RMul(c, u[3])>>

VZero == <<Zero, Zero, Zero>>

AAdd(a, b) == [i \in 1..Len(a) |-> VAdd(a[i], b[i])]

ASub(a, b) == [i \in 1..Len(a) |-> VSub(a[i], b[i])]

AScale(c, a) == [i \in 1..Len(a) |-> VScale(c, a[i])]

RECURSIVE RSum(_)
RSum(s) == IF s = <<>> THEN Zero ELSE RAdd(s[1], RSum(Tail(s)))

RECURSIVE VSum(_)
VSum(s) == IF s = <<>> THEN VZero ELSE VAdd(s[1], VSum(Tail(s)))

RECURSIVE Concat(_)
Concat(ss) == IF ss = <<>> THEN <<>> ELSE ss[1] \o Concat(Tail(ss))

\* integer point as a rational 3-vector
P(x, y, z) == <<R(x, 1), R(y, 1), R(z, 1)>>

\* ------------------------------------------------------------------------
\* Meshes: vertex positions and faces (triples of vertex ids)
\* ------------------------------------------------------------------------
Tetra ==
  [vertices |-> <<P(0, 0, 0), P(2, 0, 0), P(0, 1, 0), P(0, 0, 3)>>,
   faces |-> <<<<1, 3, 2>>, <<1, 2, 4>>, <<1, 4, 3>>, <<2, 3, 4>>>>]

Octa ==
  [vertices |-> <<P(1, 0, 0), P(-1, 0, 0), P(0, 1, 0), P(0, -1, 0),
                  P(0, 0, 1), P(0, 0, -1)>>,
   faces |-> <<<<1, 3, 5>>, <<3, 2, 5>>, <<2, 4, 5>>, <<4, 1, 5>>,
               <<3, 1, 6>>, <<2, 3, 6>>, <<4, 2, 6>>, <<1, 4, 6>>>>]

Cube ==
  [vertices |-> <<P(0, 0, 0), P(1, 0, 0), P(0, 1, 0), P(1, 1, 0),
                  P(0, 0, 1), P(1, 0, 1), P(0, 1, 1), P(1, 1, 1)>>,
   faces |-> <<<<1, 7, 3>>, <<7, 1, 5>>, <<4, 6, 2>>, <<6, 4, 8>>,
               <<6, 1, 2>>, <<1, 6, 5>>, <<7, 4, 3>>, <<4, 7, 8>>,
               <<1, 4, 2>>, <<4, 1, 3>>, <<6, 7, 5>>, <<7, 6, 8>>>>]

\* the tetrahedron plus a vertex no face references
TetraIso ==
  [vertices |-> Tetra.vertices \o <<P(1, 1, 1)>>, faces |-> Tetra.faces]

\* a single triangle with sides 6, 5, 5 in the plane z = 0 (volume 0)
Tri ==
  [vertices |-> <<P(-3, 1, 0), P(3, 1, 0), P(0, 5, 0)>>,
   faces |-> <<<<1, 2, 3>>>>]

\* the triangle plus a vertex no face references
TriIso ==
  [vertices |-> Tri.vertices \o <<P(1, 2, 3)>>, faces |-> Tri.faces]

Meshes == {Tetra, Octa, Cube, TetraIso, Tri, TriIso}

\* the 12 edges of the cube as neighbor lists (3 neighbors per vertex)
CubeEdges ==
  <<<<2, 3, 5>>, <<1, 4, 6>>, <<1, 4, 7>>, <<2, 3, 8>>,
    <<1, 6, 7>>, <<2, 5, 8>>, <<3, 5, 8>>, <<4, 6, 7>>>>

RECURSIVE SortedSeq(_)
SortedSeq(S) ==
  IF S = {} THEN <<>>
  ELSE LET m == CHOOSE x \in S : \A y \in S : x <= y
       IN  <<m>> \o SortedSeq(S \ {m})

FaceSet(f) == {f[1], f[2], f[3]}

\* mesh.vertex_neighbors: per vertex, the ids of the vertices sharing an edge
vertex_neighbors(m) ==
  [i \in 1..Len(m.vertices) |->
     SortedSeq({j \in 1..Len(m.vertices) :
                  /\ j # i
                  /\ \E k \in 1..Len(m.faces) :
                       i \in FaceSet(m.faces[k]) /\ j \in FaceSet(m.faces[k])})]

Det(a, b, c) ==
  RAdd(RSub(RMul(a[1], RSub(RMul(b[2], c[3]), RMul(b[3], c[2]))),
            RMul(a[2], RSub(RMul(b[1], c[3]), RMul(b[3], c[1])))),
       RMul(a[3], RSub(RMul(b[1], c[2]), RMul(b[2], c[1]))))

\* mass_properties(vertices[faces])["volume"]: signed enclosed volume
Volume(verts, faces) ==
  RMul(R(1, 6),
       RSum([k \in 1..Len(faces) |->
               Det(verts[faces[k][1]], verts[faces[k][2]], verts[faces[k][3]])]))

\* ------------------------------------------------------------------------
\* laplacian_calculation
\* ------------------------------------------------------------------------
SqDist(u, w) ==
  LET d == VSub(u, w)
  IN  RAdd(RMul(d[1], d[1]), RAdd(RMul(d[2], d[2]), RMul(d[3], d[3])))

\* every edge length of the mesh is rational
RationalEdges(verts, nbrs) ==
  \A i \in 1..Len(nbrs) : \A k \in 1..Len(nbrs[i]) :
     LET s == SqDist(verts[i], verts[nbrs[i][k]])
     IN  s[1] > 0 /\ IsSquare(s[1]) /\ IsSquare(s[2])

\* [1.0 / len(n)] * len(n): the quotient is evaluated before the repetition,
\* so an empty neighbor list raises ZeroDivisionError; the inverse-distance
\* branch divides empty arrays only and raises nothing
LaplacianRaises(nbrs, equal_weight) ==
  equal_weight /\ \E i \in 1..Len(nbrs) : Len(nbrs[i]) = 0

\* variant: every weight is 1 / (len(n) + 1)
EqualDataOffByOne(nbrs) ==
  Concat([i \in 1..Len(nbrs) |->
            [k \in 1..Len(nbrs[i]) |-> RDiv(One, R(Len(nbrs[i]) + 1, 1))]])

EqualData(nbrs) ==
  Concat([i \in 1..Len(nbrs) |->
            [k \in 1..Len(nbrs[i]) |-> RDiv(One, R(Len(nbrs[i]), 1))]])

Norms(verts, nbrs, i) ==
  [k \in 1..Len(nbrs[i]) |->
     RDiv(One, RSqrt(SqDist(verts[i], verts[nbrs[i][k]])))]

DistanceData(verts, nbrs) ==
  Concat([i \in 1..Len(nbrs) |->
            [k \in 1..Len(nbrs[i]) |->
               RDiv(Norms(verts, nbrs, i)[k], RSum(Norms(verts, nbrs, i)))]])

\* coo_matrix((data, (row, col)), shape): duplicate coordinates are summed
coo_matrix(data, row, col, n) ==
  [i \in 1..n |->
     [j \in 1..n |->
        RSum(SelectSeq([k \in 1..Len(data) |->
                          IF row[k] = i /\ col[k] = j THEN data[k] ELSE Zero],
                       LAMBDA x : x # Zero))]]

LaplacianFrom(verts, nbrs, equal_weight) ==
  LET col == Concat(nbrs)
      row == Concat([i \in 1..Len(nbrs) |-> [k \in 1..Len(nbrs[i]) |-> i]])
      data == IF equal_weight THEN EqualData(nbrs)
              ELSE DistanceData(verts, nbrs)
  IN  coo_matrix(data, row, col, Len(verts))

laplacian_calculation(m, equal_weight) ==
  LaplacianFrom(m.vertices, vertex_neighbors(m), equal_weight)

\* ------------------------------------------------------------------------
\* Sparse linear algebra used by the filters
\* ------------------------------------------------------------------------
\* laplacian_operator.dot(vertices)
Dot(L, v) ==
  [i \in 1..Len(L) |-> VSum([j \in 1..Len(v) |-> VScale(L[i][j], v[j])])]

\* eye(dlap) + lamb * (eye(dlap) - laplacian_operator)
SystemMatrix(L, lamb) ==
  [i \in 1..Len(L) |->
     [j \in 1..Len(L) |->
        LET e == IF i = j THEN One ELSE Zero
        IN  RAdd(e, RMul(lamb, RSub(e, L[i][j])))]]

\* Gauss-Jordan elimination on the augmented rows; <<>> when A is singular
RECURSIVE Eliminate(_, _)
Eliminate(M, k) ==
  IF k > Len(M) THEN M
  ELSE LET cand == {p \in k..Len(M) : M[p][k] # Zero}
       IN  IF cand = {} THEN <<>>
           ELSE LET p == CHOOSE q \in cand : \A r \in cand : q <= r
                    sw == [M EXCEPT ![k] = M[p], ![p] = M[k]]
                    rowk == [c \in 1..Len(sw[k]) |-> RDiv(sw[k][c], sw[k][k])]
                    red == [i \in 1..Len(M) |->
                              IF i = k THEN rowk
                              ELSE [c \in 1..Len(rowk) |->
                                      RSub(sw[i][c], RMul(sw[i][k], rowk[c]))]]
                IN  Eliminate(red, k + 1)

\* spsolve(AA, vertices): the x with AA x = vertices
spsolve(A, b) ==
  LET n == Len(A)
      E == Eliminate([i \in 1..n |-> A[i] \o b[i]], 1)
  IN  IF E = <<>> THEN <<>>
      ELSE [i \in 1..n |-> <<E[i][n + 1], E[i][n + 2], E[i][n + 3]>>]

\* ------------------------------------------------------------------------
\* State
\* ------------------------------------------------------------------------
VARIABLES
  call,               \* the public function being run
  mesh,               \* the mesh: [vertices, faces]
  arg,                \* the call's arguments
  laplacian_operator, \* None or the operator (argument, local, or result)
  vertices,           \* the working array of the filter
  original,           \* filter_humphrey: saved copy of the positions
  vert_q,             \* filter_humphrey: copy taken at the top of an iteration
  v_ini,              \* filter_laplacian: volume taken before the loop
  vol,                \* filter_laplacian: volume taken in the last iteration
  index,              \* loop counter
  pc,                 \* position in the call
  pre                 \* the mesh's positions when the call was made

vars == <<call, mesh, arg, laplacian_operator, vertices, original, vert_q,
          v_ini, vol, index, pc, pre>>

None == <<>>

Filters == {"filter_laplacian", "filter_humphrey", "filter_taubin"}

Lambs == {R(-1, 2), Zero, R(1, 2), One, R(2, 1)}

Nus == {R(1, 2), R(3, 4)}

Alphas == {Zero, R(1, 2), One}

Betas == {Zero, R(1, 2), One}

\* the argument defaults of the signatures
Defaults ==
  [lamb |-> R(1, 2), nu |-> R(1, 2), alpha |-> R(1, 10), beta |-> R(1, 2),
   iterations |-> MaxIter, implicit_time_integration |-> FALSE,
   volume_constraint |-> TRUE, laplacian_operator |-> None,
   equal_weight |-> TRUE]

\* operators a caller can pass for mesh m: none, the equal-weight operator of
\* the cube's 12 edges, or (all edge lengths rational, not for
\* filter_humphrey) the inverse-distance operator of the mesh
OperatorArgs(c, m) ==
  {None}
    \cup (IF m = Cube
          THEN {LaplacianFrom(m.vertices, CubeEdges, TRUE)} ELSE {})
    \cup (IF c # "filter_humphrey"
             /\ RationalEdges(m.vertices, vertex_neighbors(m))
          THEN {laplacian_calculation(m, FALSE)} ELSE {})

ArgsOf(c, m) ==
  IF c = "laplacian_calculation"
  THEN {[Defaults EXCEPT !.equal_weight = e] :
          e \in {x \in BOOLEAN :
                   x \/ RationalEdges(m.vertices, vertex_neighbors(m))}}
  ELSE IF c = "filter_laplacian"
  THEN {[Defaults EXCEPT !.lamb = l, !.iterations = n,
                         !.implicit_time_integration = im,
                         !.volume_constraint = vc,
                         !.laplacian_operator = op] :
          l \in Lambs, n \in 0..MaxIter,
          im \in {x \in BOOLEAN : ~x \/ Len(m.vertices) <= MaxSolveDim},
          vc \in {x \in BOOLEAN : ~x \/ Volume(m.vertices, m.faces) # Zero},
          op \in OperatorArgs(c, m)}
  ELSE IF c = "filter_humphrey"
  THEN {[Defaults EXCEPT !.alpha = a, !.beta = b, !.iterations = n,
                         !.laplacian_operator = op] :
          a \in Alphas, b \in Betas, n \in 0..MaxIter,
          op \in OperatorArgs(c, m)}
  ELSE {[Defaults EXCEPT !.lamb = l, !.nu = u, !.iterations = n,
                         !.laplacian_operator = op] :
          l \in Lambs, u \in Nus, n \in 0..MaxIter,
          op \in OperatorArgs(c, m)}

Init ==
  /\ call \in Filters \cup {"laplacian_calculation"}
  /\ mesh \in Meshes
  /\ arg \in ArgsOf(call, mesh)
  /\ laplacian_operator = arg.laplacian_operator
  /\ vertices = <<>>
  /\ original = <<>>
  /\ vert_q = <<>>
  /\ v_ini = Zero
  /\ vol = Zero
  /\ index = 0
  /\ pc = "start"
  /\ pre = mesh.vertices

\* ------------------------------------------------------------------------
\* Operations
\* ------------------------------------------------------------------------
\* a direct call of laplacian_calculation(mesh, equal_weight)
Calc ==
  /\ call = "laplacian_calculation"
  /\ pc = "start"
  /\ IF LaplacianRaises(vertex_neighbors(mesh), arg.equal_weight)
     THEN /\ pc' = "failed"
          /\ UNCHANGED laplacian_operator
     ELSE /\ pc' = "done"
          /\ laplacian_operator' = laplacian_calculation(mesh, arg.equal_weight)
  /\ UNCHANGED <<call, mesh, arg, vertices, original, vert_q, v_ini, vol,
                 index, pre>>

\* "if laplacian_operator is None: laplacian_operator =
\*  laplacian_calculation(mesh)" of the three filters
BuildOperator ==
  /\ call \in Filters
  /\ pc = "start"
  /\ IF laplacian_operator # None
     THEN /\ pc' = "setup"
          /\ UNCHANGED laplacian_operator
     ELSE IF LaplacianRaises(vertex_neighbors(mesh), TRUE)
     THEN /\ pc' = "failed"
          /\ UNCHANGED laplacian_operator
     ELSE /\ pc' = "setup"
          /\ laplacian_operator' = laplacian_calculation(mesh, TRUE)
  /\ UNCHANGED <<call, mesh, arg, vertices, original, vert_q, v_ini, vol,
                 index, pre>>

\* variant: the working array is the mesh's own array (no copy)
DetachAliased(stored, working) == working

\* vertices = mesh.vertices.copy(): the working array is a copy, so writing
\* the working array in place leaves the array stored in the mesh as it was
Detach(stored, working) == stored

\* filter_laplacian, up to the loop: v_ini = mesh.volume, the copy
LaplacianSetup ==
  /\ call = "filter_laplacian"
  /\ pc = "setup"
  /\ v_ini' = IF arg.volume_constraint
              THEN Volume(mesh.vertices, mesh.faces) ELSE v_ini
  /\ vertices' = mesh.vertices
  /\ index' = 0
  /\ pc' = "loop"
  /\ UNCHANGED <<call, mesh, arg, laplacian_operator, original, vert_q, vol,
                 pre>>

\* variant: vertex after vertex, each reading the rows already written
RECURSIVE SequentialUpdate(_, _, _, _)
SequentialUpdate(L, v, lamb, i) ==
  IF i > Len(v) THEN v
  ELSE LET lv == VSum([j \in 1..Len(v) |-> VScale(L[i][j], v[j])])
           w == [v EXCEPT ![i] = VAdd(v[i], VScale(lamb, VSub(lv, v[i])))]
       IN  SequentialUpdate(L, w, lamb, i + 1)

ExplicitUpdateSequential(L, v, lamb) == SequentialUpdate(L, v, lamb, 1)

\* variant: dot = L.dot(vertices), the subtraction forgotten
ExplicitUpdateNoSubtract(L, v, lamb) == AAdd(v, AScale(lamb, Dot(L, v)))

\* variant: vertices -= lamb * dot
ExplicitUpdateFlipped(L, v, lamb) ==
  ASub(v, AScale(lamb, ASub(Dot(L, v), v)))

\* dot = L.dot(vertices) - vertices; vertices += lamb * dot
ExplicitUpdate(L, v, lamb) == AAdd(v, AScale(lamb, ASub(Dot(L, v), v)))

AfterDiffusion ==
  IF arg.volume_constraint
  THEN pc' = "volume" /\ UNCHANGED index
  ELSE pc' = "loop" /\ index' = index + 1

ExplicitStep ==
  /\ call = "filter_laplacian"
  /\ pc = "loop"
  /\ index < arg.iterations
  /\ ~arg.implicit_time_integration
  /\ vertices' = ExplicitUpdate(laplacian_operator, vertices, arg.lamb)
  /\ mesh' = [mesh EXCEPT !.vertices = Detach(mesh.vertices, vertices')]
  /\ AfterDiffusion
  /\ UNCHANGED <<call, arg, laplacian_operator, original, vert_q, v_ini, vol,
                 pre>>

\* vertices = spsolve(AA, vertices)
ImplicitStep ==
  /\ call = "filter_laplacian"
  /\ pc = "loop"
  /\ index < arg.iterations
  /\ arg.implicit_time_integration
  /\ LET x == spsolve(SystemMatrix(laplacian_operator, arg.lamb), vertices)
     IN  IF x = <<>>
         THEN pc' = "failed" /\ UNCHANGED <<vertices, index>>
         ELSE vertices' = x /\ AfterDiffusion
  /\ UNCHANGED <<call, mesh, arg, laplacian_operator, original, vert_q,
                 v_ini, vol, pre>>

\* the linear solve raises
SolveFails ==
  /\ call = "filter_laplacian"
  /\ pc = "loop"
  /\ index < arg.iterations
  /\ arg.implicit_time_integration
  /\ pc' = "failed"
  /\ UNCHANGED <<call, mesh, arg, laplacian_operator, vertices, original,
                 vert_q, v_ini, vol, index, pre>>

\* mesh.triangles: the triangles of the positions stored in the mesh
Triangles(m) == m.vertices

\* vol = mass_properties(mesh.triangles, skip_inertia=True)["volume"]
\* vertices *= (v_ini / vol) ** (1. / 3.)
VolumeStep ==
  /\ call = "filter_laplacian"
  /\ pc = "volume"
  /\ vol' = Volume(Triangles(mesh), mesh.faces)
  /\ vol' # Zero
  /\ vertices' = AScale(CubeRoot(RDiv(v_ini, vol')), vertices)
  /\ mesh' = [mesh EXCEPT !.vertices = Detach(mesh.vertices, vertices')]
  /\ index' = index + 1
  /\ pc' = "loop"
  /\ UNCHANGED <<call, arg, laplacian_operator, original, vert_q, v_ini, pre>>

\* the volume computation raises (mass_properties is a name the module never
\* imports; a vanished volume makes the rescale factor undefined)
VolumeFails ==
  /\ call = "filter_laplacian"
  /\ pc = "volume"
  /\ pc' = "failed"
  /\ UNCHANGED <<call, mesh, arg, laplacian_operator, vertices, original,
                 vert_q, v_ini, vol, index, pre>>

\* filter_humphrey, up to the loop: the copy and the saved original
HumphreySetup ==
  /\ call = "filter_humphrey"
  /\ pc = "setup"
  /\ vertices' = mesh.vertices
  /\ original' = mesh.vertices
  /\ index' = 0
  /\ pc' = "loop"
  /\ UNCHANGED <<call, mesh, arg, laplacian_operator, vert_q, v_ini, vol, pre>>

\* variant: vert_q is not a copy and follows the diffused array
HumphreyBAliased(p, orig, q, alpha) ==
  ASub(p, AAdd(AScale(alpha, orig), AScale(RSub(One, alpha), p)))

\* vert_b = vertices - (alpha * original + (1.0 - alpha) * vert_q)
HumphreyB(p, orig, q, alpha) ==
  ASub(p, AAdd(AScale(alpha, orig), AScale(RSub(One, alpha), q)))

\* vertices -= (beta * vert_b + (1.0 - beta) * L.dot(vert_b))
HumphreyUpdate(L, p, b, beta) ==
  ASub(p, AAdd(AScale(beta, b), AScale(RSub(One, beta), Dot(L, b))))

\* one pass of the filter_humphrey loop
HumphreyStep ==
  /\ call = "filter_humphrey"
  /\ pc = "loop"
  /\ index < arg.iterations
  /\ vert_q' = vertices
  /\ LET p == Dot(laplacian_operator, vertices)
         b == HumphreyB(p, original, vert_q', arg.alpha)
     IN  vertices' = HumphreyUpdate(laplacian_operator, p, b, arg.beta)
  /\ mesh' = [mesh EXCEPT !.vertices = Detach(mesh.vertices, vertices')]
  /\ index' = index + 1
  /\ UNCHANGED <<call, arg, laplacian_operator, original, v_ini, vol, pc, pre>>

\* filter_taubin, up to the loop: the copy
TaubinSetup ==
  /\ call = "filter_taubin"
  /\ pc = "setup"
  /\ vertices' = mesh.vertices
  /\ index' = 0
  /\ pc' = "loop"
  /\ UNCHANGED <<call, mesh, arg, laplacian_operator, original, vert_q,
                 v_ini, vol, pre>>

\* variant: the dilate step first
TaubinUpdateSwapped(L, v, i, lamb, nu) ==
  LET dot == ASub(Dot(L, v), v)
  IN  IF i % 2 = 1 THEN AAdd(v, AScale(lamb, dot))
      ELSE ASub(v, AScale(nu, dot))

\* index % 2 == 0: vertices += lamb * dot; else: vertices -= nu * dot
TaubinUpdate(L, v, i, lamb, nu) ==
  LET dot == ASub(Dot(L, v), v)
  IN  IF i % 2 = 0 THEN AAdd(v, AScale(lamb, dot))
      ELSE ASub(v, AScale(nu, dot))

\* one pass of the filter_taubin loop
TaubinStep ==
  /\ call = "filter_taubin"
  /\ pc = "loop"
  /\ index < arg.iterations
  /\ vertices' = TaubinUpdate(laplacian_operator, vertices, index,
                              arg.lamb, arg.nu)
  /\ mesh' = [mesh EXCEPT !.vertices = Detach(mesh.vertices, vertices')]
  /\ index' = index + 1
  /\ UNCHANGED <<call, arg, laplacian_operator, original, vert_q, v_ini, vol,
                 pc, pre>>

\* mesh.vertices = vertices; return mesh
Assign ==
  /\ call \in Filters
  /\ pc = "loop"
  /\ index >= arg.iterations
  /\ mesh' = [mesh EXCEPT !.vertices = vertices]
  /\ pc' = "done"
  /\ UNCHANGED <<call, arg, laplacian_operator, vertices, original, vert_q,
                 v_ini, vol, index, pre>>

Next ==
  \/ Calc
  \/ BuildOperator
  \/ LaplacianSetup
  \/ ExplicitStep
  \/ ImplicitStep
  \/ SolveFails
  \/ VolumeStep
  \/ VolumeFails
  \/ HumphreySetup
  \/ HumphreyStep
  \/ TaubinSetup
  \/ TaubinStep
  \/ Assign

Spec == Init /\ [][Next]_vars

TypeOK ==
  /\ pc \in {"start", "setup", "loop", "volume", "done", "failed"}
  /\ index \in 0..(MaxIter + 1)

\* ------------------------------------------------------------------------
\* Properties
\* ------------------------------------------------------------------------
Range(q) == {q[k] : k \in 1..Len(q)}

HasIsolated(m) ==
  \E i \in 1..Len(m.vertices) : Len(vertex_neighbors(m)[i]) = 0

RowStochastic(L) ==
  \A i \in 1..Len(L) :
     /\ RSum(L[i]) = One
     /\ \A j \in 1..Len(L[i]) : RLe(Zero, L[i][j])

\* coordinate a of row i of L v, summed entry by entry
Mean(L, v, i, a) == RSum([j \in 1..Len(v) |-> RMul(L[i][j], v[j][a])])

\* row i of L v - v
Delta(L, v, i) ==
  <<RSub(Mean(L, v, i, 1), v[i][1]), RSub(Mean(L, v, i, 2), v[i][2]),
    RSub(Mean(L, v, i, 3), v[i][3])>>

Centroid3(v, n) ==
  VScale(R(1, 3), VAdd(v[n[1]], VAdd(v[n[2]], v[n[3]])))

Failed == pc = "failed"

Done == pc = "done"

\* C1: in each of the three filters the positions stored in the mesh stay
\* the pre-call positions until the final assignment, so after a call that
\* aborted (operator construction, solve or volume step failed) the mesh
\* holds the positions it had before the call.
C1_UntouchedUntilAssign ==
  (call \in Filters /\ ~Done) => mesh.vertices = pre

\* an aborted filter_laplacian call whose working array had already moved
C1_Witness ==
  /\ call = "filter_laplacian"
  /\ Failed
  /\ index >= 1
  /\ vertices # pre
  /\ mesh.vertices = pre

\* an aborted filter_humphrey or filter_taubin call
C1_WitnessOther ==
  call \in {"filter_humphrey", "filter_taubin"} /\ Failed

\* C2: for a mesh with an isolated vertex laplacian_calculation raises in
\* both weighting modes and returns no operator.
C2_IsolatedRaises ==
  (call = "laplacian_calculation" /\ HasIsolated(mesh) /\ pc # "start")
    => (Failed /\ laplacian_operator = None)

\* the operator a direct equal-weight call returned, or a filter built
BuiltEqualWeight ==
  \/ call = "laplacian_calculation" /\ arg.equal_weight /\ Done
  \/ /\ call \in Filters
     /\ arg.laplacian_operator = None
     /\ laplacian_operator # None

\* C3: when every vertex has a neighbor, the equal-weight operator is V x V,
\* its entry (i, j) is 1/deg(i) for a neighbor j of i and zero otherwise,
\* and every row sums to 1.
C3_EqualWeightOperator ==
  (BuiltEqualWeight /\ ~HasIsolated(mesh)) =>
    LET nb == vertex_neighbors(mesh)
        V == Len(mesh.vertices)
        L == laplacian_operator
    IN  /\ Len(L) = V
        /\ \A i \in 1..V :
             /\ Len(L[i]) = V
             /\ \A j \in 1..V :
                  L[i][j] = IF j \in Range(nb[i])
                            THEN R(1, Len(nb[i])) ELSE Zero
             /\ RSum(L[i]) = One

\* the equal-weight operator of the triangulated cube (degrees 3 and 6)
C3_Witness ==
  /\ call = "laplacian_calculation"
  /\ arg.equal_weight
  /\ Done
  /\ pre = Cube.vertices
  /\ laplacian_operator[1][2] = R(1, 6)
  /\ laplacian_operator[2][1] = R(1, 3)

\* C4: with the volume constraint, the volume used by each rescale is the
\* volume at the working array after that iteration's diffusion update, the
\* rescaled array encloses the volume taken before the loop, and the mesh
\* volume after the call equals the volume before the call.
C4_VolumePreserved ==
  [][(call = "filter_laplacian" /\ arg.volume_constraint) =>
       /\ (pc = "volume" /\ pc' = "loop") =>
            /\ v_ini = Volume(pre, mesh.faces)
            /\ vol' = Volume(vertices, mesh.faces)
            /\ Volume(vertices', mesh.faces) = v_ini
       /\ (pc = "loop" /\ pc' = "done") =>
            Volume(mesh'.vertices, mesh.faces) = Volume(pre, mesh.faces)]_vars

CubeScenario ==
  /\ call = "filter_laplacian"
  /\ pre = Cube.vertices
  /\ arg.laplacian_operator = LaplacianFrom(Cube.vertices, CubeEdges, TRUE)
  /\ arg.lamb = One
  /\ arg.iterations = 1
  /\ ~arg.implicit_time_integration
  /\ ~arg.volume_constraint

\* C5: an explicit iteration without volume constraint replaces every vertex
\* i by v_i + lamb * ((L v)_i - v_i) with L v taken from the positions at the
\* start of the iteration; on the unit cube with the 3-neighbor equal-weight
\* operator, one iteration with lamb = 1 puts every vertex at the centroid of
\* its 3 neighbors' previous positions.
C5_SimultaneousUpdate ==
  [][/\ (/\ call = "filter_laplacian"
         /\ ~arg.implicit_time_integration
         /\ ~arg.volume_constraint
         /\ pc = "loop"
         /\ index' = index + 1) =>
          \A i \in 1..Len(vertices) :
             vertices'[i] =
               VAdd(vertices[i],
                    VScale(arg.lamb, Delta(laplacian_operator, vertices, i)))
     /\ (CubeScenario /\ pc = "loop" /\ pc' = "done") =>
          \A i \in 1..8 :
             mesh'.vertices[i] = Centroid3(pre, CubeEdges[i])]_vars

\* the cube after the pass: vertex (0,0,0) sits at (1/3, 1/3, 1/3)
C5_Witness ==
  /\ CubeScenario
  /\ Done
  /\ mesh.vertices[1] = <<R(1, 3), R(1, 3), R(1, 3)>>
  /\ mesh.vertices[8] = <<R(2, 3), R(2, 3), R(2, 3)>>

OctaPass ==
  /\ call = "filter_laplacian"
  /\ pre = Octa.vertices
  /\ arg.laplacian_operator = None
  /\ ~arg.implicit_time_integration
  /\ ~arg.volume_constraint
  /\ arg.iterations = 1
  /\ Done

\* C6 as stated: one explicit pass on the regular octahedron leaves every
\* vertex where it was, for any lamb.
C6_OctaFixedPoint == OctaPass => mesh.vertices = pre

\* C6: one explicit pass on the regular octahedron (equal weights, no volume
\* constraint) maps every vertex v to (1 - lamb) v, its neighbors' centroid
\* being the origin; the positions are unchanged exactly when lamb = 0.
C6_OctaScaled ==
  OctaPass =>
    /\ mesh.vertices = AScale(RSub(One, arg.lamb), pre)
    /\ (mesh.vertices = pre) <=> (arg.lamb = Zero)

\* the octahedron halved by one pass with lamb = 1/2
C6_Witness ==
  /\ OctaPass
  /\ arg.lamb = R(1, 2)
  /\ mesh.vertices[1] = <<R(1, 2), Zero, Zero>>
  /\ mesh.vertices # pre

\* the array after adding c * (L v - v) to v, row by row
Stepped(L, v, c) ==
  [i \in 1..Len(v) |-> VAdd(v[i], VScale(c, Delta(L, v, i)))]

\* C7: iteration t of filter_taubin takes its delta from the array at the
\* start of the iteration, adds lamb * d_t for even t and subtracts nu * d_t
\* for odd t; after exactly 2 iterations the net displacement of every
\* vertex is lamb * d_0 - nu * d_1, d_1 recomputed after the first step.
C7_TaubinAlternation ==
  [][(call = "filter_taubin" /\ pc = "loop") =>
       /\ (index' = index + 1) =>
            vertices' =
              Stepped(laplacian_operator, vertices,
                      IF index % 2 = 0 THEN arg.lamb ELSE RNeg(arg.nu))
       /\ (arg.iterations = 2 /\ pc' = "done") =>
            LET L == laplacian_operator
                v1 == Stepped(L, pre, arg.lamb)
            IN  \A i \in 1..Len(pre) :
                   VSub(mesh'.vertices[i], pre[i]) =
                     VSub(VScale(arg.lamb, Delta(L, pre, i)),
                          VScale(arg.nu, Delta(L, v1, i)))]_vars

\* a completed two-iteration run that moved the mesh
C7_Witness ==
  /\ call = "filter_taubin"
  /\ Done
  /\ arg.iterations = 2
  /\ arg.lamb = R(1, 2)
  /\ arg.nu = R(3, 4)
  /\ mesh.vertices # pre

\* C8: with alpha = 1 filter_humphrey assigns back the original positions,
\* for every beta, iteration count and row-stochastic operator.
C8_AlphaOneNoSmoothing ==
  (/\ call = "filter_humphrey"
   /\ arg.alpha = One
   /\ Done
   /\ RowStochastic(laplacian_operator)) => mesh.vertices = pre

\* C9: in filter_humphrey the saved original is the pre-call positions in
\* every iteration, q is the array at the start of the iteration, and the
\* new array is p - (beta b + (1 - beta) L b) with p = L q and
\* b = p - (alpha original + (1 - alpha) q).
C9_HumphreyIteration ==
  [][(call = "filter_humphrey" /\ pc = "loop" /\ index' = index + 1) =>
       LET L == laplacian_operator
           q == vertices
           p == [i \in 1..Len(q) |->
                   <<Mean(L, q, i, 1), Mean(L, q, i, 2), Mean(L, q, i, 3)>>]
           b == [i \in 1..Len(q) |->
                   VSub(p[i], VAdd(VScale(arg.alpha, pre[i]),
                                   VScale(RSub(One, arg.alpha), q[i])))]
       IN  /\ original = pre
           /\ original' = pre
           /\ vert_q' = q
           /\ \A i \in 1..Len(q) :
                vertices'[i] =
                  VSub(p[i],
                       VAdd(VScale(arg.beta, b[i]),
                            VScale(RSub(One, arg.beta),
                                   <<Mean(L, b, i, 1), Mean(L, b, i, 2),
                                     Mean(L, b, i, 3)>>)))]_vars

\* the second iteration done: q differs from the original and from the result
C9_Witness ==
  /\ call = "filter_humphrey"
  /\ pc = "loop"
  /\ index = 2
  /\ original = pre
  /\ vert_q # original
  /\ vertices # vert_q
  /\ arg.alpha = R(1, 2)

AxisMin(v, a) ==
  CHOOSE x \in {v[i][a] : i \in 1..Len(v)} :
    \A y \in {v[i][a] : i \in 1..Len(v)} : RLe(x, y)

AxisMax(v, a) ==
  CHOOSE x \in {v[i][a] : i \in 1..Len(v)} :
    \A y \in {v[i][a] : i \in 1..Len(v)} : RLe(y, x)

WithinBox(v, box) ==
  \A i \in 1..Len(v) : \A a \in 1..3 :
     RLe(AxisMin(box, a), v[i][a]) /\ RLe(v[i][a], AxisMax(box, a))

ExplicitRun ==
  /\ call = "filter_laplacian"
  /\ ~arg.implicit_time_integration
  /\ ~arg.volume_constraint
  /\ pc \in {"loop", "done"}
  /\ RowStochastic(laplacian_operator)

\* C10: explicit filter_laplacian without volume constraint, 0 <= lamb <= 1,
\* non-negative row-stochastic operator: after any number of iterations every
\* coordinate lies within the pre-call [min, max] of its axis, and with
\* lamb = 0 the positions are unchanged.
C10_ConvexHullBound ==
  (ExplicitRun /\ RLe(Zero, arg.lamb) /\ RLe(arg.lamb, One)) =>
    /\ WithinBox(vertices, pre)
    /\ WithinBox(mesh.vertices, pre)
    /\ (arg.lamb = Zero) => (vertices = pre /\ mesh.vertices = pre)

\* two explicit passes with lamb = 1/2 that moved the mesh
C10_Witness ==
  /\ ExplicitRun
  /\ Done
  /\ arg.lamb = R(1, 2)
  /\ arg.iterations = 2
  /\ mesh.vertices # pre

====
